---- MODULE Spec2Model ----
(***************************************************************************)
(* The session orchestrator (RitualWorker) of the ritual service: the      *)
(* selector, the monitor loop, the timeline, the phase handlers, the       *)
(* player distributor and the hot store they share.                        *)
(***************************************************************************)
EXTENDS Integers, Sequences, FiniteSets, TLC

\* ------------------------------------------------------------------ bounds
NumWallets == 5      \* wallets that can register for a session
MaxPerLobby == 3     \* largest max_total_players of a session
MaxTime == 19        \* the wall clock runs from 0 to MaxTime
MaxVotes == 1        \* votes external voters append to one vote list
MaxLate == 1         \* clock ticks that may elapse while work is runnable
MaxRestarts == 1     \* worker crashes followed by a restart
MaxSelectorTime == 6 \* the clock of the selector watched on its own
MaxSubs == 3         \* listeners on new-session while unknown ids are announced
MaxTimelineTime == 4 \* the clock of getNextEvent run on its own
MaxLobbyTime == 3    \* the clock of the lobby manager run on its own
MaxLobbies == 3      \* lobbies of a roster the distributor is run on alone

Wallets == 1..NumWallets
LobbyIds == 1..NumWallets
SessionIds == {1, 2}

ACTIVE == "active"
ELIMINATED == "eliminated"
COMPLETED == "completed"

\* ----------------------------------------------------------- sequences
Range(s) == {s[i] : i \in 1..Len(s)}

Perms(S) == {p \in [1..Cardinality(S) -> S] : Range(p) = S}

RECURSIVE CountOf(_, _)
CountOf(s, x) ==
  IF s = <<>> THEN 0
  ELSE (IF Head(s) = x THEN 1 ELSE 0) + CountOf(Tail(s), x)

InsertAt(s, pos, x) ==
  [i \in 1..(Len(s) + 1) |->
     IF i < pos THEN s[i] ELSE IF i = pos THEN x ELSE s[i - 1]]

\* ------------------------------------------------- relational store rows
\* A round row: its number and its eight phase instants.
Round(num, t0) ==
  [round_number |-> num,
   ai_message_start |-> t0, ai_message_end |-> t0 + 1,
   start_time |-> t0 + 2, end_time |-> t0 + 3,
   elimination_start |-> t0 + 4, elimination_end |-> t0 + 5,
   voting_start_time |-> t0 + 6, voting_end_time |-> t0 + 7]

\* A round row whose eight instants are given one by one.
RoundAt(num, ts) ==
  [round_number |-> num,
   ai_message_start |-> ts[1], ai_message_end |-> ts[2],
   start_time |-> ts[3], end_time |-> ts[4],
   elimination_start |-> ts[5], elimination_end |-> ts[6],
   voting_start_time |-> ts[7], voting_end_time |-> ts[8]]

\* A session row with its rounds and its registered players.
Session(id, start, end, maxp, n, rounds) ==
  [id |-> id, start_time |-> start, end_time |-> end,
   max_total_players |-> maxp, players |-> [i \in 1..n |-> i],
   rounds |-> rounds]

NoSession == Session(0, 0, 0, 1, 0, <<>>)

\* --------------------------------------------------------- the hot store
NoLobby == [id |-> 0, players |-> <<>>, created_at |-> 0, status |-> "none"]
NoElimination == [exists |-> FALSE, eliminatedPlayers |-> <<>>]
RoundNums == 1..2

\* flushAll leaves the store in this state.
EmptyRedis ==
  [lobby |-> [k \in SessionIds \X LobbyIds |-> NoLobby],
   lobbies |-> [s \in SessionIds |-> <<>>],
   players |-> [s \in SessionIds |-> {}],
   player |-> [k \in LobbyIds \X Wallets |-> "none"],
   voting |-> [k \in SessionIds \X LobbyIds \X RoundNums |-> <<>>],
   elimination |-> [l \in LobbyIds |-> NoElimination]]

FlushAll(r) == EmptyRedis

\* sadd of one lobby key to the session's lobby index; pos is where the set's
\* iteration order puts a new member.
SAddLobby(r, sid, lid, pos) ==
  IF lid \in Range(r.lobbies[sid]) THEN r
  ELSE [r EXCEPT !.lobbies[sid] = InsertAt(@, pos, lid)]

\* A broadcast: channel, event name and the payload fields the properties read.
Msg(ch, ev, sid, rnd, lobby, list, result) ==
  [ch |-> ch, ev |-> ev, sid |-> sid, round |-> rnd, lobby |-> lobby,
   list |-> list, result |-> result, topic |-> "", at |-> 0]

\* pusher.trigger: the broadcast is appended to the log with its instant.
Trigger(w, m) ==
  IF w.fault = "broadcast" THEN [w EXCEPT !.err = TRUE]
  ELSE [w EXCEPT !.log = Append(@, [m EXCEPT !.at = w.t])]

\* A call to the hot store: it throws while the store is unreachable.
StoreCall(w) == IF w.fault = "store" THEN [w EXCEPT !.err = TRUE] ELSE w

\* ------------------------------------------------------- lobby manager
GetLobby(r, sid, lid) == r.lobby[sid, lid]

\* The lobby records the session's index leads to, in the index's order;
\* keys without a record are skipped.
GetAllLobbies(r, sid) ==
  LET recs == [i \in 1..Len(r.lobbies[sid]) |-> r.lobby[sid, r.lobbies[sid][i]]]
  IN SelectSeq(recs, LAMBDA l : l # NoLobby)

\* The lobbies as an object read before any of them was completed shows them:
\* every one still ACTIVE.
GetLobbiesReadEarlier(r, sid) ==
  LET all == GetAllLobbies(r, sid)
  IN [i \in 1..Len(all) |-> [all[i] EXCEPT !.status = ACTIVE]]

GetActiveLobbies(r, sid) ==
  SelectSeq(GetAllLobbies(r, sid), LAMBDA l : l.status = ACTIVE)

GetRemainingPlayersByLobby(r, sid, lid) ==
  LET l == GetLobby(r, sid, lid)
  IN IF l = NoLobby \/ l.status # ACTIVE THEN <<>>
     ELSE SelectSeq(l.players, LAMBDA p : p.status # ELIMINATED)

GetVotingResults(r, sid, lid, rnd) ==
  [continue |-> CountOf(r.voting[sid, lid, rnd], "continue"),
   share |-> CountOf(r.voting[sid, lid, rnd], "share")]

ClearVotes(r, lid) ==
  [r EXCEPT !.voting = [k \in DOMAIN @ |-> IF k[2] = lid THEN <<>> ELSE @[k]]]

\* updateLobby: throws when the key is missing, else merges the given lobby
\* object over the stored one.
UpdateLobby(w, sid, lid, lobby) ==
  IF w.err THEN w
  ELSE IF GetLobby(w.redis, sid, lid) = NoLobby THEN [w EXCEPT !.err = TRUE]
  ELSE [w EXCEPT !.redis.lobby[sid, lid] = lobby]

\* An updateLobbyStatus that stores a record of its own when the key is
\* missing.
UpdateLobbyStatusCreating(w, sid, lid, status) ==
  IF w.err THEN w
  ELSE IF GetLobby(w.redis, sid, lid) = NoLobby
    THEN [w EXCEPT !.redis.lobby[sid, lid] =
            [id |-> lid, players |-> <<>>, created_at |-> w.t, status |-> status]]
  ELSE [w EXCEPT !.redis.lobby[sid, lid].status = status]

UpdateLobbyStatus(w, sid, lid, status) ==
  IF w.err THEN w
  ELSE IF GetLobby(w.redis, sid, lid) = NoLobby THEN [w EXCEPT !.err = TRUE]
  ELSE [w EXCEPT !.redis.lobby[sid, lid].status = status]

\* A createLobby that writes without asking whether the key exists.
CreateLobbyOverwrite(w, sid, lid, players, pos) ==
  IF w.err \/ StoreCall(w).err THEN StoreCall(w)
  ELSE [w EXCEPT !.redis =
          SAddLobby([@ EXCEPT !.lobby[sid, lid] =
                        [id |-> lid, players |-> players, created_at |-> w.t,
                         status |-> ACTIVE]],
                    sid, lid, pos)]

\* createLobby: returns at once when the lobby key exists; else stores the new
\* lobby record and adds its key to the session's index. (Its catch branch
\* needs a store that fails between the two writes, which StoreCall has not.)
CreateLobby(w, sid, lid, players, pos) ==
  IF w.err \/ StoreCall(w).err THEN StoreCall(w)
  ELSE IF GetLobby(w.redis, sid, lid) # NoLobby THEN w
  ELSE [w EXCEPT !.redis =
          SAddLobby([@ EXCEPT !.lobby[sid, lid] =
                        [id |-> lid, players |-> players, created_at |-> w.t,
                         status |-> ACTIVE]],
                    sid, lid, pos)]

\* ---------------------------------------------------- player distributor
\* Array.prototype.slice(from, to), clipped to the array.
Slice(s, from, to) ==
  LET hi == IF to > Len(s) THEN Len(s) ELSE to
  IN IF from >= hi THEN <<>> ELSE [i \in 1..(hi - from) |-> s[from + i]]

\* A lobby count rounded up, so that no lobby exceeds the maximum.
NumLobbiesRoundedUp(total, maxp) ==
  IF total % maxp = 0 /\ total > 0 THEN total \div maxp ELSE total \div maxp + 1

NumLobbies(total, maxp) ==
  LET n0 == total \div maxp
  IN IF n0 = 0 \/ total % maxp # 0
       THEN (IF n0 > 1 THEN n0 ELSE 1)
       ELSE n0

MinPlayersPerLobby(total, maxp) == total \div NumLobbies(total, maxp)

ExtraPlayers(total, maxp) ==
  total - MinPlayersPerLobby(total, maxp) * NumLobbies(total, maxp)

\* A distributor that forgets the remainder: every lobby gets the minimum.
PlayersInThisLobbyNoRest(i, total, maxp) == MinPlayersPerLobby(total, maxp)

\* Players of the lobby at loop index i (0-based): the last one takes the rest.
PlayersInThisLobby(i, total, maxp) ==
  IF i = NumLobbies(total, maxp) - 1
    THEN MinPlayersPerLobby(total, maxp) + ExtraPlayers(total, maxp)
    ELSE MinPlayersPerLobby(total, maxp)

\* getPlayers: the cached set when there is one, else the rows of the players
\* table, which are then cached.
GetPlayers(r, sid, rows) ==
  IF r.players[sid] # {}
    THEN CHOOSE p \in Perms(r.players[sid]) : TRUE
    ELSE rows

GetPlayersStore(r, sid, rows) ==
  IF r.players[sid] = {} /\ Len(rows) > 0
    THEN [r EXCEPT !.players[sid] = Range(rows)]
    ELSE r

AsPlayers(wallets) ==
  [i \in 1..Len(wallets) |-> [wallet_address |-> wallets[i], status |-> ACTIVE]]

WalletsOf(players) == [i \in 1..Len(players) |-> players[i].wallet_address]

\* One pass of the distributor's loop: the per-player keys, the lobby record,
\* the index entry and the lobby-created broadcast of lobby t.lobbyId.
DistributeLobby(w, t, pos) ==
  LET total == Len(t.shuffled)
      n == PlayersInThisLobby(t.lobbyId - 1, total, t.maxp)
      lobbyPlayers == Slice(t.shuffled, t.playerIndex, t.playerIndex + n)
      r1 == [w.redis EXCEPT
               !.player = [k \in DOMAIN @ |->
                  IF k[1] = t.lobbyId /\ k[2] \in Range(lobbyPlayers)
                    THEN ACTIVE ELSE @[k]],
               !.lobby[t.sid, t.lobbyId] =
                  [id |-> t.lobbyId, players |-> AsPlayers(lobbyPlayers),
                   created_at |-> w.t, status |-> ACTIVE]]
      r2 == SAddLobby(r1, t.sid, t.lobbyId, pos)
  IN Trigger([w EXCEPT !.redis = r2],
             Msg("lobby", "lobby-created", t.sid, 0, t.lobbyId, lobbyPlayers, ""))

DistributeNext(t) ==
  LET total == Len(t.shuffled)
      n == PlayersInThisLobby(t.lobbyId - 1, total, t.maxp)
  IN [t EXCEPT
        !.lobbies = Append(@, [lobbyId |-> t.lobbyId,
                               players |-> Slice(t.shuffled, t.playerIndex,
                                                 t.playerIndex + n)]),
        !.playerIndex = @ + n,
        !.lobbyId = @ + 1]

\* ------------------------------------------------------------- timeline
Ev(type, time, rnd) ==
  [type |-> type, time |-> time, round |-> rnd, asOf |-> 0, first |-> FALSE]
NoEvent == Ev("NONE", 0, 0)

RoundEvents(round) ==
  << Ev("AI_MESSAGE_START", round.ai_message_start, round.round_number),
     Ev("AI_MESSAGE_END", round.ai_message_end, round.round_number),
     Ev("ROUND_START", round.start_time, round.round_number),
     Ev("ROUND_END", round.end_time, round.round_number),
     Ev("ELIMINATION_START", round.elimination_start, round.round_number),
     Ev("ELIMINATION_END", round.elimination_end, round.round_number),
     Ev("VOTING_START", round.voting_start_time, round.round_number),
     Ev("VOTING_END", round.voting_end_time, round.round_number) >>

RECURSIVE AllRoundEvents(_)
AllRoundEvents(rounds) ==
  IF rounds = <<>> THEN <<>>
  ELSE RoundEvents(Head(rounds)) \o AllRoundEvents(Tail(rounds))

\* The events array getNextEvent builds for a session object at instant n.
Events(session, n) ==
  (IF n < session.start_time
     THEN << Ev("SESSION_START", session.start_time, 0) >> ELSE <<>>)
  \o << Ev("SESSION_END", session.end_time, 0) >>
  \o AllRoundEvents(session.rounds)

\* A getNextEvent whose filter keeps the events of the current instant.
GetNextEventInclusive(session, n) ==
  IF n >= session.end_time THEN NoEvent
  ELSE LET future == SelectSeq(Events(session, n), LAMBDA e : e.time >= n)
       IN IF future = <<>> THEN NoEvent
          ELSE future[CHOOSE i \in 1..Len(future) :
                        \A j \in 1..Len(future) :
                           \/ future[i].time < future[j].time
                           \/ future[i].time = future[j].time /\ i <= j]

\* filter(time > now), stable sort by time, first element.
GetNextEvent(session, n) ==
  IF n >= session.end_time THEN NoEvent
  ELSE LET future == SelectSeq(Events(session, n), LAMBDA e : e.time > n)
       IN IF future = <<>> THEN NoEvent
          ELSE future[CHOOSE i \in 1..Len(future) :
                        \A j \in 1..Len(future) :
                           \/ future[i].time < future[j].time
                           \/ future[i].time = future[j].time /\ i <= j]

\* The events whose handlers call the AI service.
AiEvents == {"AI_MESSAGE_START", "ROUND_END", "VOTING_END"}

\* ---------------------------------------------------------- AI client
\* What the AI service sends back: ok is false for a network error (no body)
\* and for a status outside 2xx (whose body the client does not read).
Reply(ok, body) == [ok |-> ok, body |-> body]

NoData == [exists |-> FALSE, response |-> <<>>]

\* A client that takes the body of every reply for data.
RequestAnyStatus(reply) ==
  [data |-> [exists |-> TRUE, response |-> reply.body], error |-> FALSE]

\* ApiClient.request: {data} for a 2xx reply, {error} otherwise; never throws.
Request(reply) ==
  IF reply.ok
    THEN [data |-> [exists |-> TRUE, response |-> reply.body], error |-> FALSE]
    ELSE [data |-> NoData, error |-> TRUE]

\* aiResponse.data?.response || []
EliminatedPlayersOf(aiResponse) ==
  IF aiResponse.data.exists THEN aiResponse.data.response ELSE <<>>

\* ------------------------------------------------------- phase handlers
\* handleAiMessageStart: the roundAnnouncement response is only logged; the
\* payload is {sessionId, round} and has no topic.
HandleAiMessageStart(w, sid, rnd, announcement) ==
  IF w.err THEN w
  ELSE LET aiTopicResponse == Request(announcement)
       IN Trigger(w, Msg("rounds", "ai-message-start", sid, rnd, 0, <<>>, ""))

HandleAiMessageEnd(w, sid, rnd) ==
  IF w.err THEN w
  ELSE Trigger(w, Msg("rounds", "ai-message-end", sid, rnd, 0, <<>>, ""))

HandleRoundStart(w, sid, rnd) ==
  IF w.err THEN w
  ELSE Trigger(w, Msg("rounds", "round-start", sid, rnd, 0, <<>>, ""))

HandleRoundEnd(w, sid, rnd) ==
  IF w.err THEN w
  ELSE Trigger(w, Msg("sessions", "round-end", sid, rnd, 0, <<>>, ""))

\* handleSessionEnd: the session-end broadcast, then the purge.
HandleSessionEnd(w, sid) ==
  IF w.err THEN w
  ELSE LET w1 == Trigger(w, Msg("sessions", "session-end", sid, 0, 0, <<>>, ""))
       IN IF w1.err THEN w1
          \* a failing flushAll is caught and logged
          ELSE IF StoreCall(w1).err THEN w1
          ELSE [w1 EXCEPT !.redis = FlushAll(@)]

\* handleSessionStart up to the point where it hands over to the distributor.
HandleSessionStart(w, sid, rows) ==
  IF w.err THEN w
  \* a failing flushAll is caught and logged; the smembers of getPlayers is not
  ELSE IF StoreCall(w).err THEN StoreCall(w)
  ELSE [w EXCEPT !.redis = GetPlayersStore(FlushAll(@), sid, rows)]

\* Whether handleSessionStart goes on to call the distributor.
CallsDistributor(r, sid, rows) == Len(GetPlayers(FlushAll(r), sid, rows)) > 0

\* The body of handleEliminationStart's loop for one lobby of the snapshot.
EliminateInLobby(w, sid, rnd, lobby, eliminatedPlayers) ==
  LET hit == {p \in Range(WalletsOf(lobby.players)) : p \in Range(eliminatedPlayers)}
      w1 == [w EXCEPT !.redis.player = [k \in DOMAIN @ |->
                IF k[1] = lobby.id /\ k[2] \in hit THEN ELIMINATED ELSE @[k]]]
      marked == [lobby EXCEPT !.players = [i \in 1..Len(@) |->
                   IF @[i].wallet_address \in hit
                     THEN [@[i] EXCEPT !.status = ELIMINATED] ELSE @[i]]]
      w2 == UpdateLobby(w1, sid, lobby.id, marked)
      \* redis.get returns the stored string unparsed, so the handler finds no
      \* eliminatedPlayers on it and stores the new answer alone.
      w3 == [w2 EXCEPT !.redis.elimination[lobby.id] =
                [exists |-> TRUE, eliminatedPlayers |-> eliminatedPlayers]]
  IN IF w2.err THEN w2
     ELSE Trigger(w3, Msg("lobby-N", "elimination-start", sid, rnd, lobby.id,
                          eliminatedPlayers, ""))

RECURSIVE EliminationLoop(_, _, _, _, _)
EliminationLoop(w, sid, rnd, lobbies, oracle) ==
  IF lobbies = <<>> \/ w.err THEN w
  ELSE EliminationLoop(
         EliminateInLobby(w, sid, rnd, Head(lobbies),
                          EliminatedPlayersOf(Request(oracle[Head(lobbies).id]))),
         sid, rnd, Tail(lobbies), oracle)

HandleEliminationStart(w, sid, rnd, oracle) ==
  IF w.err \/ StoreCall(w).err THEN StoreCall(w)
  ELSE EliminationLoop(w, sid, rnd, GetActiveLobbies(w.redis, sid), oracle)

RECURSIVE EliminationEndLoop(_, _, _, _)
EliminationEndLoop(w, sid, rnd, lobbies) ==
  IF lobbies = <<>> \/ w.err THEN w
  ELSE EliminationEndLoop(
         Trigger(w, Msg("lobby-N", "elimination-end", sid, rnd, Head(lobbies).id,
                        WalletsOf(Head(lobbies).players), "")),
         sid, rnd, Tail(lobbies))

HandleEliminationEnd(w, sid, rnd) ==
  IF w.err \/ StoreCall(w).err THEN StoreCall(w)
  ELSE EliminationEndLoop(w, sid, rnd, GetActiveLobbies(w.redis, sid))

\* A sole-survivor test that fires only when nobody is left.
GameEndsWhenNoneLeft(remainingPlayers) == Len(remainingPlayers) = 0

\* The sole-survivor test of processEvent's ELIMINATION_END case.
GameEnds(remainingPlayers) == Len(remainingPlayers) = 1

RECURSIVE GameEndLoop(_, _, _, _)
GameEndLoop(w, sid, rnd, lobbies) ==
  IF lobbies = <<>> \/ w.err THEN w
  ELSE LET lobby == Head(lobbies)
           w1 == UpdateLobbyStatus(w, sid, lobby.id, COMPLETED)
           w2 == IF w1.err THEN w1
                 ELSE Trigger(w1, Msg("lobby-N", "game-end", sid, rnd, lobby.id,
                                      <<>>, ""))
       IN GameEndLoop(
            IF GameEnds(GetRemainingPlayersByLobby(w.redis, sid, lobby.id))
              THEN w2 ELSE w,
            sid, rnd, Tail(lobbies))

RECURSIVE ClearVotingLoop(_, _, _, _)
ClearVotingLoop(w, sid, rnd, lobbies) ==
  IF lobbies = <<>> \/ w.err THEN w
  ELSE ClearVotingLoop(
         [w EXCEPT !.redis.voting[sid, Head(lobbies).id, rnd] = <<>>],
         sid, rnd, Tail(lobbies))

HandleVotingStart(w, sid, rnd) ==
  IF w.err THEN w
  ELSE LET w1 == Trigger(w, Msg("rounds", "voting-start", sid, rnd, 0, <<>>, ""))
       IN IF w1.err \/ StoreCall(w1).err THEN StoreCall(w1)
          ELSE ClearVotingLoop(w1, sid, rnd, GetActiveLobbies(w1.redis, sid))

\* processEvent's ELIMINATION_END case, which ROUND_END falls through to.
EliminationEndCase(w, sid, rnd) ==
  LET w1 == HandleEliminationEnd(w, sid, rnd)
      w2 == IF w1.err \/ StoreCall(w1).err THEN StoreCall(w1)
            ELSE GameEndLoop(w1, sid, rnd, GetActiveLobbies(w1.redis, sid))
  IN HandleVotingStart(w2, sid, rnd)

\* The outcome handleVotingEnd publishes for a tally.
VotingOutcome(continueVotes, shareVotes) ==
  IF continueVotes >= shareVotes THEN "continue" ELSE "share"

VotingEndInLobby(w, sid, rnd, lobby) ==
  LET lobbyResults == GetVotingResults(w.redis, sid, lobby.id, rnd)
      result == VotingOutcome(lobbyResults.continue, lobbyResults.share)
      w1 == Trigger(w, Msg("lobby-N", "voting-result", sid, rnd, lobby.id, <<>>,
                           result))
      w2 == IF result = "continue" \/ w1.err THEN w1
            ELSE HandleSessionEnd(
                   UpdateLobbyStatus(w1, sid, lobby.id, COMPLETED), sid)
  IN IF w2.err THEN w2 ELSE [w2 EXCEPT !.redis = ClearVotes(@, lobby.id)]

\* A loop over the lobbies that stops once the store lists no active lobby.
RECURSIVE VotingEndLoopWhileListed(_, _, _, _)
VotingEndLoopWhileListed(w, sid, rnd, lobbies) ==
  IF lobbies = <<>> \/ w.err \/ GetActiveLobbies(w.redis, sid) = <<>> THEN w
  ELSE VotingEndLoopWhileListed(VotingEndInLobby(w, sid, rnd, Head(lobbies)),
                                sid, rnd, Tail(lobbies))

RECURSIVE VotingEndLoop(_, _, _, _)
VotingEndLoop(w, sid, rnd, lobbies) ==
  IF lobbies = <<>> \/ w.err THEN w
  ELSE VotingEndLoop(VotingEndInLobby(w, sid, rnd, Head(lobbies)),
                     sid, rnd, Tail(lobbies))

HandleVotingEnd(w, sid, rnd) ==
  IF w.err \/ StoreCall(w).err THEN StoreCall(w)
  ELSE VotingEndLoop(w, sid, rnd, GetActiveLobbies(w.redis, sid))

ProcessEvent(w, session, rows, e, oracle, announcement) ==
  CASE e.type = "SESSION_START" -> HandleSessionStart(w, session.id, rows)
    [] e.type = "AI_MESSAGE_START" ->
         HandleAiMessageStart(w, session.id, e.round, announcement)
    [] e.type = "AI_MESSAGE_END" ->
         HandleRoundStart(HandleAiMessageEnd(w, session.id, e.round),
                          session.id, e.round)
    [] e.type = "ROUND_END" ->
         EliminationEndCase(
           HandleEliminationStart(HandleRoundEnd(w, session.id, e.round),
                                  session.id, e.round, oracle),
           session.id, e.round)
    [] e.type = "ELIMINATION_END" -> EliminationEndCase(w, session.id, e.round)
    [] e.type = "VOTING_END" ->
         HandleAiMessageStart(HandleVotingEnd(w, session.id, e.round),
                              session.id, e.round, announcement)
    [] e.type = "SESSION_END" -> HandleSessionEnd(w, session.id)
    [] OTHER -> w

\* ------------------------------------------------------------ scenarios
\* What the relational store will hold (rows), what it holds when the clock
\* starts (db0) and how often the worker may crash (restarts).
Scenario(rows, db0, restarts) ==
  [rows |-> rows, db0 |-> db0, restarts |-> restarts]

OneSession(s) == [i \in SessionIds |-> IF i = 1 THEN s ELSE NoSession]

\* The rosters the worker is run with, as << registered players,
\* max_total_players >>: no player, one lobby of one, two lobbies of one, one
\* lobby of two, one lobby of three.
Rosters == {<<0, 1>>, <<1, 1>>, <<2, 1>>, <<2, 2>>, <<3, 2>>}

\* One session of one round, created while the worker runs or known before.
OneRound ==
  {Scenario(OneSession(Session(1, 1, 10, x[2], x[1], << Round(1, 2) >>)), d, 0) :
     x \in Rosters, d \in {{}, {1}}}

\* One session of two rounds, announced on new-session.
TwoRounds ==
  {Scenario(OneSession(Session(1, 1, 18, x[2], x[1],
                               << Round(1, 2), Round(2, 10) >>)), {}, 0) :
     x \in {<<1, 1>>, <<2, 2>>}}

\* Two sessions with overlapping windows, and a worker that may crash.
Overlap ==
  {Scenario([i \in SessionIds |->
               IF i = 1 THEN Session(1, 1, 10, 1, 1, << Round(1, 2) >>)
               ELSE Session(2, 3, 12, 1, 1, << Round(1, 4) >>)],
            {1, 2}, MaxRestarts)}

Catalogue == OneRound \cup TwoRounds \cup Overlap

\* ---------------------------------------------------------------- state
VARIABLES
  cfg,        \* the scenario
  now,        \* the wall clock
  late,       \* ticks that elapsed while work was runnable
  db,         \* ids of the session rows in the relational store
  pc,         \* where the worker is: down, select, waiting, getNext, sleep, exited
  starts,     \* how often the worker process was started
  cur,        \* the session object monitorSession was called with
  evt,        \* the event monitorSession sleeps for
  subs,       \* message listeners registered on the subscriber client
  inbox,      \* new-session messages received, not yet handled
  dist,       \* distributePlayersToLobbies calls in flight
  returned,   \* what finished distributePlayersToLobbies calls returned
  redis,      \* the hot store
  log,        \* the broadcasts published, in order
  earlyDone,  \* sessions picked before their start whose monitoring returned
  ended,      \* sessions whose SESSION_END event was dispatched
  prior,      \* sessions that were being monitored when the worker went down
  inp,        \* what the handler run by the last step met: AI replies and fault
  completed   \* sessions whose monitorSession call returned in this process

vars == << cfg, now, late, db, pc, starts, cur, evt, subs, inbox, dist,
           returned, redis, log, earlyDone, ended, prior, inp, completed >>

Row(sid) == cfg.rows[sid]

NoCur == [id |-> 0, start_time |-> 0, end_time |-> 0, max_total_players |-> 0,
          rounds |-> <<>>, players |-> <<>>, pickedAt |-> 0, first |-> FALSE]

\* The session object a sessions-table query returns: no rounds, no players.
FromQuery(sid) ==
  [id |-> sid, start_time |-> Row(sid).start_time,
   end_time |-> Row(sid).end_time,
   max_total_players |-> Row(sid).max_total_players, rounds |-> <<>>,
   players |-> <<>>, pickedAt |-> now, first |-> TRUE]

\* A loader that returns the bare session row.
FetchSessionRowOnly(sid) == FromQuery(sid)

\* The session object fetchSessionById returns.
FetchSessionById(sid) ==
  [id |-> sid, start_time |-> Row(sid).start_time,
   end_time |-> Row(sid).end_time,
   max_total_players |-> Row(sid).max_total_players, rounds |-> Row(sid).rounds,
   players |-> Row(sid).players, pickedAt |-> now, first |-> TRUE]

World == [redis |-> redis, log |-> log, err |-> FALSE, t |-> now,
          fault |-> "none"]

\* The step was not a handler run.
NoInp == [oracle |-> <<>>, announcement |-> Reply(TRUE, ""), fault |-> "none"]

InitIn(scenarios) ==
  /\ cfg \in scenarios
  /\ now = 0
  /\ late = 0
  /\ db = cfg.db0
  /\ pc = "down"
  /\ starts = 0
  /\ cur = NoCur
  /\ evt = NoEvent
  /\ subs = 0
  /\ inbox = <<>>
  /\ dist = {}
  /\ returned = {}
  /\ redis = EmptyRedis
  /\ log = <<>>
  /\ earlyDone = {}
  /\ ended = {}
  /\ prior = {}
  /\ inp = NoInp
  /\ completed = {}

Init == InitIn(Catalogue)

\* ------------------------------------------------------------ the clock
\* Work that completes at once: nothing of it is pending when the clock moves.
Prompt ==
  \/ pc = "select"
  \/ pc = "sleep" /\ now >= evt.time
  \/ inbox # <<>>
  \/ pc = "getNext" /\ evt.type \notin AiEvents

\* Work that may take long: a handler that called the AI service has not
\* returned yet, or a distributePlayersToLobbies call is in flight.
Slow ==
  \/ pc = "getNext" /\ evt.type \in AiEvents
  \/ dist # {}

Tick ==
  /\ now < MaxTime
  /\ ~Prompt
  /\ Slow => late < MaxLate
  /\ now' = now + 1
  /\ late' = IF Slow THEN late + 1 ELSE late
  /\ inp' = NoInp
  /\ UNCHANGED << cfg, db, pc, starts, cur, evt, subs, inbox, dist, returned,
                  redis, log, earlyDone, ended, prior, completed >>

\* ------------------------------------------------------ process lifetime
Start ==
  /\ pc = "down"
  /\ starts <= cfg.restarts
  /\ pc' = "select"
  /\ starts' = starts + 1
  /\ inp' = NoInp
  /\ UNCHANGED << cfg, now, late, db, cur, evt, subs, inbox, dist, returned,
                  redis, log, earlyDone, ended, prior, completed >>

Crash ==
  /\ pc \notin {"down", "exited"}
  /\ starts <= cfg.restarts
  /\ pc' = "down"
  /\ cur' = NoCur
  /\ evt' = NoEvent
  /\ subs' = 0
  /\ inbox' = <<>>
  /\ dist' = {}
  /\ prior' = IF cur = NoCur THEN prior ELSE prior \cup {cur.id}
  /\ completed' = {}
  /\ inp' = NoInp
  /\ UNCHANGED << cfg, now, late, db, starts, returned, redis, log, earlyDone,
                  ended >>

\* ------------------------------------------------------------- selector
\* An active-session query that answers only when no session is upcoming.
GetActiveSessionUnlessUpcoming ==
  {s \in db : /\ Row(s).start_time <= now /\ now <= Row(s).end_time
              /\ \A u \in db : Row(u).start_time <= now}

GetActiveSession == {s \in db : Row(s).start_time <= now /\ now <= Row(s).end_time}

FetchNextSession ==
  LET upcoming == {s \in db : Row(s).start_time > now}
  IN {s \in upcoming :
        \A u \in upcoming : Row(s).start_time <= Row(u).start_time}

\* One pass of start()'s loop up to the call of monitorSession.
Select ==
  /\ pc = "select"
  /\ IF GetActiveSession # {}
       THEN \E s \in GetActiveSession :
              cur' = FromQuery(s) /\ pc' = "getNext" /\ subs' = subs
       ELSE IF FetchNextSession # {}
         THEN \E s \in FetchNextSession :
                cur' = FromQuery(s) /\ pc' = "getNext" /\ subs' = subs
         ELSE cur' = NoCur /\ pc' = "waiting" /\ subs' = subs + 1
  /\ inp' = NoInp
  /\ UNCHANGED << cfg, now, late, db, starts, evt, inbox, dist, returned,
                  redis, log, earlyDone, ended, prior, completed >>

\* The session-creation API: the row is inserted and its id is published on
\* new-session, which reaches the worker only while it is subscribed.
CreateSession(sid) ==
  /\ sid \notin db
  /\ Row(sid) # NoSession
  /\ now <= Row(sid).start_time
  /\ db' = db \cup {sid}
  /\ inbox' = IF subs > 0 THEN Append(inbox, sid) ELSE inbox
  /\ inp' = NoInp
  /\ UNCHANGED << cfg, now, late, pc, starts, cur, evt, subs, dist, returned,
                  redis, log, earlyDone, ended, prior, completed >>

RECURSIVE TriggerTimes(_, _, _)
TriggerTimes(w, m, n) ==
  IF n = 0 THEN w ELSE TriggerTimes(Trigger(w, m), m, n - 1)

\* A callback of waitForNextSession that publishes before it looks at what
\* fetchSessionById returned.
OnNewSessionPublishesFirst ==
  /\ inbox # <<>>
  /\ subs > 0
  /\ LET sid == Head(inbox)
         found == sid \in db
         w == TriggerTimes(World, Msg("sessions", "new-session", sid, 0, 0,
                                      <<>>, ""), subs)
     IN /\ log' = w.log
        /\ IF pc = "waiting"
             THEN IF found
                    THEN cur' = FetchSessionById(sid) /\ pc' = "getNext"
                    ELSE cur' = NoCur /\ pc' = "select"
             ELSE UNCHANGED << cur, pc >>
  /\ inbox' = Tail(inbox)
  /\ inp' = NoInp
  /\ UNCHANGED << cfg, now, late, db, starts, evt, subs, dist, returned, redis,
                  earlyDone, ended, prior, completed >>

\* A new-session message: every registered listener runs the callback of
\* waitForNextSession; only a pending promise is resolved by it.
OnNewSession ==
  /\ inbox # <<>>
  /\ subs > 0
  /\ LET sid == Head(inbox)
         found == sid \in db
         w == IF found
                THEN TriggerTimes(World, Msg("sessions", "new-session", sid, 0, 0,
                                             <<>>, ""), subs)
                ELSE World
     IN /\ log' = w.log
        /\ IF pc = "waiting"
             THEN IF found
                    THEN cur' = FetchSessionById(sid) /\ pc' = "getNext"
                    ELSE cur' = NoCur /\ pc' = "select"
             ELSE UNCHANGED << cur, pc >>
  /\ inbox' = Tail(inbox)
  /\ inp' = NoInp
  /\ UNCHANGED << cfg, now, late, db, starts, evt, subs, dist, returned, redis,
                  earlyDone, ended, prior, completed >>

\* --------------------------------------------------------- monitor loop
MonitorReturns ==
  /\ pc' = "select"
  /\ cur' = NoCur
  /\ evt' = NoEvent
  /\ earlyDone' = IF cur.pickedAt < cur.start_time
                    THEN earlyDone \cup {cur.id} ELSE earlyDone
  /\ completed' = completed \cup {cur.id}

\* getNextEvent at the top of monitorSession's loop.
GetNext ==
  /\ pc = "getNext"
  /\ IF GetNextEvent(cur, now) = NoEvent
       THEN MonitorReturns
       ELSE /\ evt' = [GetNextEvent(cur, now) EXCEPT !.asOf = now,
                                                   !.first = cur.first]
            /\ cur' = [cur EXCEPT !.first = FALSE]
            /\ pc' = "sleep"
            /\ UNCHANGED << earlyDone, completed >>
  /\ inp' = NoInp
  /\ UNCHANGED << cfg, now, late, db, starts, subs, inbox, dist, returned,
                  redis, log, ended, prior >>

\* decideEliminations answers with no wallet or with one registered wallet.
\* Where the services may fail (faulty) it may also fail: with a network error,
\* or with a non-2xx reply whose body lists wallets.
OracleAnswers(sid, faulty) ==
  {Reply(TRUE, <<>>)} \cup {Reply(TRUE, << p >>) : p \in Range(Row(sid).players)}
    \cup (IF faulty THEN {Reply(FALSE, <<>>), Reply(FALSE, Row(sid).players)}
                     ELSE {})

\* What decideEliminations may answer for the lobbies the handler will ask about.
OracleChoices(faulty) ==
  IF evt.type = "ROUND_END"
    THEN [{l.id : l \in Range(GetActiveLobbies(redis, cur.id))}
            -> OracleAnswers(cur.id, faulty)]
    ELSE {<<>>}

\* What roundAnnouncement may answer: a topic, or a failure.
AnnouncementChoices(faulty) ==
  IF evt.type \in {"AI_MESSAGE_START", "VOTING_END"}
    THEN {Reply(TRUE, "topic")} \cup (IF faulty THEN {Reply(FALSE, "")} ELSE {})
    ELSE {Reply(TRUE, "")}

\* The faults the handler of the event can meet: the broadcast service or the
\* hot store is unreachable while it runs.
Faults(faulty) ==
  {"none"}
    \cup (IF faulty /\ evt.type # "SESSION_START" THEN {"broadcast"} ELSE {})
    \cup (IF faulty /\ evt.type \in {"SESSION_START", "ROUND_END",
                                      "ELIMINATION_END", "VOTING_END",
                                      "SESSION_END"}
           THEN {"store"} ELSE {})

NewTask(sid, maxp) ==
  [sid |-> sid, maxp |-> maxp, status |-> "started", shuffled |-> <<>>,
   lobbyId |-> 1, playerIndex |-> 0, lobbies |-> <<>>]

\* sleepUntil has returned: processEvent runs the handler of evt.
DispatchIn(faulty) ==
  /\ pc = "sleep"
  /\ now >= evt.time
  /\ \E oracle \in OracleChoices(faulty),
        announcement \in AnnouncementChoices(faulty),
        fault \in Faults(faulty) :
       LET w == ProcessEvent([World EXCEPT !.fault = fault], cur,
                             Row(cur.id).players, evt, oracle, announcement)
       IN /\ redis' = w.redis
          /\ log' = w.log
          \* of a run that ends in an exception only the fault is recorded
          /\ inp' = IF w.err THEN [NoInp EXCEPT !.fault = fault]
                    ELSE [oracle |-> oracle, announcement |-> announcement,
                          fault |-> fault]
          /\ IF w.err
               \* the exception reaches main's catch, which ends the process
               THEN /\ pc' = "exited"
                    /\ cur' = NoCur
                    /\ evt' = NoEvent
                    /\ dist' = {}
                    /\ UNCHANGED << earlyDone, completed >>
               ELSE /\ dist' = IF /\ evt.type = "SESSION_START"
                                  /\ CallsDistributor(redis, cur.id,
                                                      Row(cur.id).players)
                                 THEN dist \cup {NewTask(cur.id,
                                                         cur.max_total_players)}
                                 ELSE dist
                    /\ IF evt.type = "SESSION_END"
                         THEN MonitorReturns
                         ELSE /\ pc' = "getNext"
                              /\ UNCHANGED << cur, evt, earlyDone, completed >>
  /\ ended' = IF evt.type = "SESSION_END" THEN ended \cup {cur.id} ELSE ended
  /\ UNCHANGED << cfg, now, late, db, starts, subs, inbox, returned, prior >>

\* A handler run while the AI service, the broadcast service and the hot store
\* all answer.
Dispatch == DispatchIn(FALSE)

\* A handler run while any of them may fail.
DispatchFaulty == DispatchIn(TRUE)

\* ------------------------------------------- the distributor's progress
\* distributePlayersToLobbies up to the shuffle.
DistBegin(t) ==
  /\ t \in dist
  /\ t.status = "started"
  /\ LET rows == Row(t.sid).players
         players == GetPlayers(redis, t.sid, rows)
     IN /\ redis' = GetPlayersStore(redis, t.sid, rows)
        /\ IF Len(players) = 0
             THEN /\ dist' = dist \ {t}
                  /\ returned' = returned \cup
                       {[sid |-> t.sid, maxp |-> t.maxp, players |-> <<>>,
                         lobbies |-> <<>>]}
             ELSE /\ \E p \in Perms(Range(players)) :
                       dist' = (dist \ {t}) \cup
                               {[t EXCEPT !.status = "running", !.shuffled = p]}
                  /\ UNCHANGED returned
  /\ inp' = NoInp
  /\ UNCHANGED << cfg, now, late, db, pc, starts, cur, evt, subs, inbox, log,
                  earlyDone, ended, prior, completed >>

\* One pass of the distributor's loop; after the last pass the call returns
\* and handleSessionStart's continuation publishes session-start.
DistLobby(t) ==
  /\ t \in dist
  /\ t.status = "running"
  /\ \E pos \in 1..(Len(redis.lobbies[t.sid]) + 1) :
       LET w == DistributeLobby(World, t, pos)
           t2 == DistributeNext(t)
           last == t2.lobbyId > NumLobbies(Len(t.shuffled), t.maxp)
           w2 == IF last /\ Len(t2.lobbies) > 0
                   THEN Trigger(w, Msg("sessions", "session-start", t.sid, 0, 0,
                                       <<>>, ""))
                   ELSE w
       IN /\ redis' = w2.redis
          /\ log' = w2.log
          /\ dist' = IF last THEN dist \ {t} ELSE (dist \ {t}) \cup {t2}
          /\ returned' = IF last
                           THEN returned \cup
                                  {[sid |-> t.sid, maxp |-> t.maxp,
                                    players |-> t.shuffled, lobbies |-> t2.lobbies]}
                           ELSE returned
  /\ inp' = NoInp
  /\ UNCHANGED << cfg, now, late, db, pc, starts, cur, evt, subs, inbox,
                  earlyDone, ended, prior, completed >>

\* ------------------------------------------------------- external voters
\* A voter appends a choice to a lobby's vote list during the voting window.
CastVote(sid, lid, rnd, choice) ==
  /\ sid \in db
  /\ rnd <= Len(Row(sid).rounds)
  /\ Row(sid).rounds[rnd].voting_start_time <= now
  /\ now <= Row(sid).rounds[rnd].voting_end_time
  /\ GetLobby(redis, sid, lid) # NoLobby
  /\ Len(redis.voting[sid, lid, rnd]) < MaxVotes
  /\ redis' = [redis EXCEPT !.voting[sid, lid, rnd] = << choice >> \o @]
  /\ inp' = NoInp
  /\ UNCHANGED << cfg, now, late, db, pc, starts, cur, evt, subs, inbox, dist,
                  returned, log, earlyDone, ended, prior, completed >>

\* -------------------------------------------------------- specification
Next ==
  \/ Tick
  \/ Start
  \/ Crash
  \/ Select
  \/ \E sid \in SessionIds : CreateSession(sid)
  \/ OnNewSession
  \/ GetNext
  \/ Dispatch
  \/ \E t \in dist : DistBegin(t)
  \/ \E t \in dist : DistLobby(t)
  \/ \E sid \in SessionIds, lid \in LobbyIds, rnd \in RoundNums,
        choice \in {"continue", "share"} : CastVote(sid, lid, rnd, choice)

Spec == Init /\ [][Next]_vars

\* ------------------------------------ the worker among failing services
\* One-round sessions announced on new-session, with handlers that may meet a
\* failing AI service, broadcast service or hot store; no crash from outside
\* and no vote cast. Nothing is observed after the process exits.
InitFaults == Init /\ cfg \in OneRound /\ cfg.db0 = {}

\* The clock, watched until main's catch has ended the process.
TickWhileRunning == pc # "exited" /\ Tick

NextFaults ==
  \/ TickWhileRunning
  \/ Start
  \/ Select
  \/ \E sid \in SessionIds : CreateSession(sid)
  \/ OnNewSession
  \/ GetNext
  \/ DispatchFaulty
  \/ \E t \in dist : DistBegin(t)
  \/ \E t \in dist : DistLobby(t)

SpecFaults == InitFaults /\ [][NextFaults]_vars

\* ------------------------------------- the distributor run on its own
\* distributePlayersToLobbies(1, maxp) called for every roster size and every
\* max_total_players within the bounds that give at most MaxLobbies lobbies,
\* on an empty hot store.
DistScenarios ==
  {Scenario(OneSession(Session(1, 1, 10, x[2], x[1], <<>>)), {1}, 0) :
     x \in {y \in (0..NumWallets) \X (1..MaxPerLobby) :
              NumLobbies(y[1], y[2]) <= MaxLobbies}}

InitDist ==
  /\ cfg \in DistScenarios
  /\ now = 0
  /\ late = 0
  /\ db = cfg.db0
  /\ pc = "down"
  /\ starts = 0
  /\ cur = NoCur
  /\ evt = NoEvent
  /\ subs = 0
  /\ inbox = <<>>
  /\ dist = {NewTask(1, Row(1).max_total_players)}
  /\ returned = {}
  /\ redis = EmptyRedis
  /\ log = <<>>
  /\ earlyDone = {}
  /\ ended = {}
  /\ prior = {}
  /\ inp = NoInp
  /\ completed = {}

NextDist ==
  \/ \E t \in dist : DistBegin(t)
  \/ \E t \in dist : DistLobby(t)

SpecDist == InitDist /\ [][NextDist]_vars

\* ------------------------- the worker on coinciding instants and races
\* Sessions whose rows put the worker's steps close together: a round whose
\* AI_MESSAGE_START coincides with the session's start and whose ROUND_START
\* coincides with AI_MESSAGE_END; a session with no round that ends one instant
\* after it starts, so that the distribution started at SESSION_START may still
\* be running at SESSION_END; and a round of eight distinct instants played by
\* one lobby of two.
Coinciding ==
  {Scenario(OneSession([Session(1, 1, 8, 2, n, <<>>) EXCEPT
                          !.rounds = << RoundAt(1, <<1, 2, 2, 3, 4, 5, 6, 7>>) >>]),
            {}, 0) : n \in {1, 2}}

ShortSession == {Scenario(OneSession(Session(1, 1, 2, 1, 2, <<>>)), {1}, 0)}

PlayedByTwo ==
  {Scenario(OneSession(Session(1, 1, 10, 2, 2, << Round(1, 2) >>)), {}, 0)}

EdgeScenarios == Coinciding \cup ShortSession \cup PlayedByTwo

InitEdge == InitIn(EdgeScenarios)

\* A voter that follows the broadcasts: once voting-start of a round has been
\* published it appends its choice to its lobby's vote list, until the round's
\* voting_end_time.
VoteOnBroadcast(sid, lid, rnd, choice) ==
  /\ \E i \in DOMAIN log : /\ log[i].ev = "voting-start"
                           /\ log[i].sid = sid /\ log[i].round = rnd
  /\ now <= Row(sid).rounds[rnd].voting_end_time
  /\ GetLobby(redis, sid, lid) # NoLobby
  /\ Len(redis.voting[sid, lid, rnd]) < MaxVotes
  /\ redis' = [redis EXCEPT !.voting[sid, lid, rnd] = << choice >> \o @]
  /\ inp' = NoInp
  /\ UNCHANGED << cfg, now, late, db, pc, starts, cur, evt, subs, inbox, dist,
                  returned, log, earlyDone, ended, prior, completed >>

\* handleEliminationStart calls this.redis.set on the per-player keys without
\* awaiting it: a write the handler does not wait for, in flight until it lands.
SetTask(lid, wallet) ==
  [sid |-> 0, maxp |-> 0, status |-> "set", shuffled |-> << wallet >>,
   lobbyId |-> lid, playerIndex |-> 0, lobbies |-> <<>>]

\* The handler of ROUND_END returns while the per-player writes it started are
\* still in flight: the lobby records, the elimination records and the
\* broadcasts are those of the handler, the per-player keys are not yet written.
DispatchUnawaited ==
  /\ pc = "sleep"
  /\ now >= evt.time
  /\ evt.type = "ROUND_END"
  /\ \E oracle \in OracleChoices(FALSE) :
       LET w == ProcessEvent(World, cur, Row(cur.id).players, evt, oracle,
                             Reply(TRUE, ""))
           started == {k \in DOMAIN redis.player :
                         w.redis.player[k] # redis.player[k]}
       IN /\ ~w.err
          /\ started # {}
          /\ redis' = [w.redis EXCEPT !.player = redis.player]
          /\ log' = w.log
          /\ dist' = dist \cup {SetTask(k[1], k[2]) : k \in started}
          /\ inp' = [oracle |-> oracle, announcement |-> Reply(TRUE, ""),
                     fault |-> "none"]
  /\ pc' = "getNext"
  /\ UNCHANGED << cfg, now, late, db, starts, cur, evt, subs, inbox, returned,
                  earlyDone, ended, prior, completed >>

\* A per-player write started by handleEliminationStart lands.
PlayerKeyLands(t) ==
  /\ t \in dist
  /\ t.status = "set"
  /\ redis' = [redis EXCEPT !.player[t.lobbyId, t.shuffled[1]] = ELIMINATED]
  /\ dist' = dist \ {t}
  /\ inp' = NoInp
  /\ UNCHANGED << cfg, now, late, db, pc, starts, cur, evt, subs, inbox,
                  returned, log, earlyDone, ended, prior, completed >>

NextEdge ==
  \/ Tick
  \/ Start
  \/ Select
  \/ \E sid \in SessionIds : CreateSession(sid)
  \/ OnNewSession
  \/ GetNext
  \/ Dispatch
  \/ \E t \in dist : DistBegin(t)
  \/ \E t \in dist : DistLobby(t)
  \/ \E sid \in SessionIds, lid \in LobbyIds, rnd \in RoundNums,
        choice \in {"continue", "share"} : VoteOnBroadcast(sid, lid, rnd, choice)
  \/ DispatchUnawaited
  \/ \E t \in dist : PlayerKeyLands(t)

SpecEdge == InitEdge /\ [][NextEdge]_vars

\* ------------------------------------------- two lobbies, two rounds
\* One session of two rounds played by two players in two lobbies of one: a
\* lobby whose player survives round 1 is completed, a lobby whose player is
\* eliminated stays active and is written back by the elimination of round 2.
\* The session is announced on new-session, which loads its rounds.
TwoLobbiesTwoRounds ==
  {Scenario(OneSession(Session(1, 1, 18, 1, 2, << Round(1, 2), Round(2, 10) >>)),
            {}, 0)}

InitTwoLobbies == InitIn(TwoLobbiesTwoRounds)

NextTwoLobbies ==
  \/ Tick
  \/ Start
  \/ Select
  \/ \E sid \in SessionIds : CreateSession(sid)
  \/ OnNewSession
  \/ GetNext
  \/ Dispatch
  \/ \E t \in dist : DistBegin(t)
  \/ \E t \in dist : DistLobby(t)

SpecTwoLobbies == InitTwoLobbies /\ [][NextTwoLobbies]_vars

\* ------------------------------------------ the selector and its channel
\* Two sessions without rounds or players, with windows that follow each
\* other, overlap or coincide; any of them may be stored before the worker
\* starts, the others are created while it runs. A publisher may also announce
\* on new-session an id that no row of the sessions table has.
SelectorScenarios ==
  {Scenario([i \in SessionIds |->
               IF i = 1 THEN Session(1, a[1], a[2], 1, 0, <<>>)
               ELSE Session(2, b[1], b[2], 1, 0, <<>>)], d, 0) :
     a \in {<<1, 2>>, <<1, 4>>, <<2, 3>>},
     b \in {<<1, 2>>, <<2, 5>>, <<4, 5>>},
     d \in SUBSET SessionIds}

InitSelector == InitIn(SelectorScenarios)

TickSelector == now < MaxSelectorTime /\ Tick

AnnounceUnknown(sid) ==
  /\ sid \notin db
  /\ subs > 0
  /\ subs < MaxSubs
  /\ inbox = <<>>
  /\ inbox' = Append(inbox, sid)
  /\ inp' = NoInp
  /\ UNCHANGED << cfg, now, late, db, pc, starts, cur, evt, subs, dist, returned,
                  redis, log, earlyDone, ended, prior, completed >>

NextSelector ==
  \/ TickSelector
  \/ Start
  \/ Select
  \/ \E sid \in SessionIds : CreateSession(sid)
  \/ \E sid \in SessionIds : AnnounceUnknown(sid)
  \/ OnNewSession
  \/ GetNext
  \/ Dispatch

SpecSelector == InitSelector /\ [][NextSelector]_vars

\* ------------------------------------------- getNextEvent run on its own
\* getNextEvent called at every instant of the clock for a session of one
\* round whose eight instants are any of 1, 2, 3, in any order and with any
\* coincidence, and that starts at 1 or 2 and ends later, at 2 or 3.
TimelineScenarios ==
  {Scenario(OneSession([Session(1, x[1], x[2], 1, 0, <<>>)
                          EXCEPT !.rounds = << RoundAt(1, ts) >>]), {1}, 0) :
     x \in {<<1, 2>>, <<1, 3>>, <<2, 3>>}, ts \in [1..8 -> 1..3]}

InitTimeline == InitIn(TimelineScenarios)

Elapse ==
  /\ now < MaxTimelineTime
  /\ now' = now + 1
  /\ UNCHANGED << cfg, late, db, pc, starts, cur, evt, subs, inbox, dist,
                  returned, redis, log, earlyDone, ended, prior, inp, completed >>

GetNextEventCall ==
  /\ evt' = [GetNextEvent(Row(1), now) EXCEPT !.asOf = now]
  /\ pc' = "sleep"
  /\ UNCHANGED << cfg, now, late, db, starts, cur, subs, inbox, dist,
                  returned, redis, log, earlyDone, ended, prior, inp, completed >>

NextTimeline == Elapse \/ GetNextEventCall

SpecTimeline == InitTimeline /\ [][NextTimeline]_vars

\* ---------------------------------------- the lobby manager run on its own
\* createLobby and updateLobbyStatus called by a client, for two lobbies of
\* session 1 and every roster of two wallets, while the clock runs.
LobbyRosters ==
  {AsPlayers(ws) : ws \in {<< 1 >>, << 2 >>, << 1, 2 >>, << 2, 1 >>}}

InitLobby ==
  /\ Init
  /\ cfg \in OneRound
  /\ cfg.db0 = {1}
  /\ Len(cfg.rows[1].players) = 2
  /\ cfg.rows[1].max_total_players = 2

TickLobby == now < MaxLobbyTime /\ Tick

CreateLobbyCall(sid, lid, players) ==
  /\ \E pos \in 1..(Len(redis.lobbies[sid]) + 1) :
       redis' = CreateLobby(World, sid, lid, players, pos).redis
  /\ inp' = NoInp
  /\ UNCHANGED << cfg, now, late, db, pc, starts, cur, evt, subs, inbox, dist,
                  returned, log, earlyDone, ended, prior, completed >>

\* A call of updateLobbyStatus: the store is as the call left it, and a call
\* that threw is remembered as such.
UpdateLobbyStatusCall(sid, lid, status) ==
  /\ LET w == UpdateLobbyStatus(World, sid, lid, status)
     IN /\ redis' = w.redis
        /\ inp' = IF w.err THEN [NoInp EXCEPT !.fault = "missing"] ELSE NoInp
  /\ UNCHANGED << cfg, now, late, db, pc, starts, cur, evt, subs, inbox, dist,
                  returned, log, earlyDone, ended, prior, completed >>

\* The lobby objects updateLobby is called with: a lobby as a caller read it,
\* with its first player marked ELIMINATED.
LobbyObjects(lid) ==
  {[id |-> lid, players |-> [players EXCEPT ![1].status = ELIMINATED],
    created_at |-> 0, status |-> ACTIVE] : players \in LobbyRosters}

\* A call of updateLobby.
UpdateLobbyCall(sid, lid, lobby) ==
  /\ LET w == UpdateLobby(World, sid, lid, lobby)
     IN /\ redis' = w.redis
        /\ inp' = IF w.err THEN [NoInp EXCEPT !.fault = "missing"] ELSE NoInp
  /\ UNCHANGED << cfg, now, late, db, pc, starts, cur, evt, subs, inbox, dist,
                  returned, log, earlyDone, ended, prior, completed >>

NextLobby ==
  \/ TickLobby
  \/ \E lid \in 1..2, players \in LobbyRosters : CreateLobbyCall(1, lid, players)
  \/ \E lid \in 1..2, status \in {ACTIVE, COMPLETED} :
       UpdateLobbyStatusCall(1, lid, status)
  \/ \E lid \in 1..2 : \E lobby \in LobbyObjects(lid) :
       UpdateLobbyCall(1, lid, lobby)

SpecLobby == InitLobby /\ [][NextLobby]_vars

\* ------------------------------------------------------------ properties
\* Positions of the broadcasts named ev published for session sid.
Published(ev, sid) == {i \in DOMAIN log : log[i].ev = ev /\ log[i].sid = sid}

\* Positions of the broadcasts the step from this state to the next appended.
Appended == (Len(log) + 1)..Len(log')

RECURSIVE SumSizes(_)
SumSizes(lobbies) ==
  IF lobbies = <<>> THEN 0
  ELSE Len(Head(lobbies).players) + SumSizes(Tail(lobbies))

NotEliminated(lobby) ==
  {i \in DOMAIN lobby.players : lobby.players[i].status # ELIMINATED}

\* C1: every session the worker picked before its start and monitored until
\* it completed has exactly one session-start and exactly one session-end
\* broadcast in the log.
C1_StartAndEndOnce ==
  \A s \in earlyDone :
    /\ Cardinality(Published("session-start", s)) = 1
    /\ Cardinality(Published("session-end", s)) = 1

PhaseBroadcasts ==
  {"ai-message-start", "ai-message-end", "round-start", "round-end",
   "elimination-start", "elimination-end", "voting-start", "voting-result"}

PhaseRank(ev) ==
  CASE ev = "ai-message-start" -> 1
    [] ev = "ai-message-end" -> 2
    [] ev = "round-start" -> 3
    [] ev = "round-end" -> 4
    [] ev = "elimination-start" -> 5
    [] ev = "elimination-end" -> 6
    [] ev = "voting-start" -> 7
    [] ev = "voting-result" -> 8

PhaseTime(round, ev) ==
  CASE ev = "ai-message-start" -> round.ai_message_start
    [] ev = "ai-message-end" -> round.ai_message_end
    [] ev = "round-start" -> round.start_time
    [] ev = "round-end" -> round.end_time
    [] ev = "elimination-start" -> round.elimination_start
    [] ev = "elimination-end" -> round.elimination_end
    [] ev = "voting-start" -> round.voting_start_time
    [] ev = "voting-result" -> round.voting_end_time

\* C2: the phase broadcasts of one round of one session appear in the log in
\* the canonical phase order, and none is published before the instant its
\* phase has in the round's row.
C2_CanonicalOrderOnTime ==
  \A i \in DOMAIN log :
    log[i].ev \in PhaseBroadcasts =>
      /\ log[i].at >= PhaseTime(Row(log[i].sid).rounds[log[i].round], log[i].ev)
      /\ \A j \in DOMAIN log :
           (/\ i < j
            /\ log[j].ev \in PhaseBroadcasts
            /\ log[j].sid = log[i].sid
            /\ log[j].round = log[i].round)
             => PhaseRank(log[i].ev) <= PhaseRank(log[j].ev)

\* C3: an elimination-start broadcast for a lobby never names a wallet whose
\* status in that lobby's record was already ELIMINATED when the handler that
\* published it started.
C3_NoDoubleElimination ==
  [][\A i \in Appended :
       log'[i].ev = "elimination-start" =>
         \A p \in Range(GetLobby(redis, log'[i].sid, log'[i].lobby).players) :
           p.status = ELIMINATED => p.wallet_address \notin Range(log'[i].list)]_vars

\* C4: the step that dispatches VOTING_END publishes, for every lobby active
\* when it starts, a voting-result that is "continue" exactly when the lobby's
\* vote list for the round holds at least as many "continue" as "share".
C4_ResultFollowsTally ==
  [][(pc = "sleep" /\ evt.type = "VOTING_END"
      /\ pc' \in {"getNext", "exited"}) =>
       \A l \in Range(GetActiveLobbies(redis, cur.id)) :
         LET votes == redis.voting[cur.id, l.id, evt.round]
             continueWins == CountOf(votes, "continue") >= CountOf(votes, "share")
         IN /\ \E i \in Appended :
                 log'[i].ev = "voting-result" /\ log'[i].lobby = l.id
            /\ \A i \in Appended :
                 (log'[i].ev = "voting-result" /\ log'[i].lobby = l.id) =>
                   (log'[i].result = "continue" <=> continueWins)
                   /\ log'[i].result \in {"continue", "share"}]_vars

\* C5: what a finished distributePlayersToLobbies call returned for a
\* non-empty roster is a partition of the registered players: the lobby sizes
\* add up to the roster's size, every registered wallet is in exactly one
\* lobby, and the lobby records in the hot store hold the same players.
C5_LobbiesPartitionRoster ==
  \A r \in returned :
    Len(r.players) > 0 =>
      /\ SumSizes(r.lobbies) = Len(Row(r.sid).players)
      /\ \A p \in Range(Row(r.sid).players) :
           Cardinality({i \in DOMAIN r.lobbies :
                          p \in Range(r.lobbies[i].players)}) = 1
      /\ \A i \in DOMAIN r.lobbies :
           WalletsOf(GetLobby(redis, r.sid, r.lobbies[i].lobbyId).players)
             = r.lobbies[i].players

\* A distribution into several lobbies of unequal size has returned.
C5_Witness ==
  \E r \in returned :
    /\ Len(r.lobbies) >= 2
    /\ \E i, j \in DOMAIN r.lobbies :
         Len(r.lobbies[i].players) < Len(r.lobbies[j].players)

\* C6: no lobby a finished distributePlayersToLobbies call returned holds
\* more players than the maximum the call was given.
C6_LobbiesWithinMax ==
  \A r \in returned :
    \A i \in DOMAIN r.lobbies : Len(r.lobbies[i].players) <= r.maxp

\* C7: a session without registered players that the worker picked before its
\* start and monitored until it completed has no lobby-created,
\* elimination-start, elimination-end, game-end or voting-result broadcast,
\* and has both a session-start and a session-end broadcast.
C7_EmptyRosterStillStartsAndEnds ==
  \A s \in earlyDone :
    Row(s).players = <<>> =>
      /\ \A ev \in {"lobby-created", "elimination-start", "elimination-end",
                    "game-end", "voting-result"} : Published(ev, s) = {}
      /\ Published("session-start", s) # {}
      /\ Published("session-end", s) # {}

\* The phase boundaries of a session as its rows give them.
Boundaries(sid) ==
  {[type |-> "SESSION_START", time |-> Row(sid).start_time, round |-> 0],
   [type |-> "SESSION_END", time |-> Row(sid).end_time, round |-> 0]}
  \cup {[type |-> e.type, time |-> e.time, round |-> e.round] :
          e \in Range(AllRoundEvents(Row(sid).rounds))}

\* C8: when a restarted worker re-picks, inside its window, the session it was
\* monitoring when it went down, the first event it sleeps for is a phase
\* boundary of the session later than the instant of the pick, and no other
\* boundary lies between the two.
C8_ResumesAtFirstUnreached ==
  (/\ pc = "sleep"
   /\ evt.first
   /\ cur.id \in prior
   /\ cur.start_time <= evt.asOf) =>
     /\ [type |-> evt.type, time |-> evt.time, round |-> evt.round]
          \in Boundaries(cur.id)
     /\ evt.time > evt.asOf
     /\ \A b \in Boundaries(cur.id) : b.time > evt.asOf => evt.time <= b.time

Overlapping(a, b) ==
  /\ Row(a).start_time <= Row(b).end_time
  /\ Row(b).start_time <= Row(a).end_time

\* C9: while the worker monitors a session, every stored session with an
\* overlapping window and an earlier start that had not yet passed its end
\* when the monitored one was picked has had its SESSION_END dispatched.
C9_EarlierSessionFirst ==
  cur # NoCur =>
    \A o \in db \ {cur.id} :
      (/\ Overlapping(o, cur.id)
       /\ Row(o).start_time < Row(cur.id).start_time
       /\ cur.pickedAt <= Row(o).end_time)
        => o \in ended

\* C10: the step that dispatches ELIMINATION_END leaves every lobby of the
\* session that had exactly one non-eliminated player when it started with
\* status COMPLETED and with a game-end broadcast in the log.
C10_SoleSurvivorEndsGame ==
  [][(pc = "sleep" /\ evt.type = "ELIMINATION_END"
      /\ pc' \in {"getNext", "exited"}) =>
       \A l \in Range(GetAllLobbies(redis, cur.id)) :
         Cardinality(NotEliminated(l)) = 1 =>
           /\ GetLobby(redis', cur.id, l.id).status = COMPLETED
           /\ \E i \in DOMAIN log' :
                /\ log'[i].ev = "game-end"
                /\ log'[i].sid = cur.id
                /\ log'[i].lobby = l.id]_vars

\* ELIMINATION_END was dispatched for a session with a lobby reduced from
\* several players to one survivor.
C10_Witness ==
  /\ pc = "getNext"
  /\ evt.type = "ELIMINATION_END"
  /\ \E l \in Range(GetAllLobbies(redis, cur.id)) :
       /\ Len(l.players) >= 2
       /\ Cardinality(NotEliminated(l)) = 1
       /\ l.status = COMPLETED
       /\ \E i \in Published("game-end", cur.id) : log[i].lobby = l.id

\* C11: the step that dispatches ELIMINATION_END sets every lobby that was
\* active with at most one non-eliminated player (none included) to COMPLETED
\* and publishes a game-end broadcast for it.
C11_AtMostOneEndsGame ==
  [][(pc = "sleep" /\ evt.type = "ELIMINATION_END"
      /\ pc' \in {"getNext", "exited"}) =>
       \A l \in Range(GetActiveLobbies(redis, cur.id)) :
         Cardinality(NotEliminated(l)) <= 1 =>
           /\ GetLobby(redis', cur.id, l.id).status = COMPLETED
           /\ \E i \in Appended :
                /\ log'[i].ev = "game-end"
                /\ log'[i].sid = cur.id
                /\ log'[i].lobby = l.id]_vars

\* The events whose dispatch runs handleVotingStart or handleVotingEnd.
VotingPhaseEvents == {"ROUND_END", "ELIMINATION_END", "VOTING_END"}

\* C12: a lobby whose status is COMPLETED is skipped by every later voting
\* phase: the step that runs handleVotingStart or handleVotingEnd publishes no
\* voting-result for it and leaves each of its vote lists as it was.
C12_CompletedLobbySkipped ==
  [][(pc = "sleep" /\ evt.type \in VotingPhaseEvents
      /\ pc' \in {"getNext", "exited"}) =>
       \A lid \in LobbyIds :
         GetLobby(redis, cur.id, lid).status = COMPLETED =>
           /\ \A i \in Appended :
                ~(log'[i].ev = "voting-result" /\ log'[i].lobby = lid)
           /\ \A rnd \in RoundNums :
                redis'.voting[cur.id, lid, rnd] = redis.voting[cur.id, lid, rnd]]_vars

\* C13: when decideEliminations fails for a lobby (network error or a reply
\* outside 2xx), the ROUND_END step changes the status of none of that lobby's
\* players, in the lobby record and in the per-player keys alike, while every
\* other active lobby is processed with its own answer: its elimination-start
\* carries that answer and the members the answer names are eliminated.
C13_FailedOracleLeavesRoster ==
  [][(pc = "sleep" /\ evt.type = "ROUND_END" /\ pc' = "getNext") =>
       \A l \in Range(GetActiveLobbies(redis, cur.id)) :
         LET reply == inp'.oracle[l.id]
             after == GetLobby(redis', cur.id, l.id)
         IN /\ ~reply.ok =>
                 /\ after.players = l.players
                 /\ \A p \in Wallets :
                      redis'.player[l.id, p] = redis.player[l.id, p]
            /\ reply.ok =>
                 /\ \E i \in Appended :
                      /\ log'[i].ev = "elimination-start"
                      /\ log'[i].lobby = l.id
                      /\ log'[i].list = reply.body
                 /\ \A j \in 1..Len(l.players) :
                      l.players[j].wallet_address \in Range(reply.body) =>
                        after.players[j].status = ELIMINATED]_vars

\* A ROUND_END handler has run in which the oracle failed for one lobby with a
\* reply that lists wallets, and eliminated a member of another lobby.
C13_Witness ==
  /\ pc = "getNext"
  /\ evt.type = "ROUND_END"
  /\ \E l1, l2 \in DOMAIN inp.oracle :
       /\ l1 # l2
       /\ ~inp.oracle[l1].ok
       /\ inp.oracle[l1].body # <<>>
       /\ NotEliminated(GetLobby(redis, cur.id, l1)) # {}
       /\ inp.oracle[l2].ok
       /\ \E j \in 1..Len(GetLobby(redis, cur.id, l2).players) :
            GetLobby(redis, cur.id, l2).players[j].status = ELIMINATED

\* C14: when the roundAnnouncement call fails, the AI_MESSAGE_START step still
\* publishes rounds/ai-message-start for the round, with the fallback topic
\* "Discuss your strategy!", and the worker goes on to the next event.
C14_FallbackTopicPublished ==
  [][(pc = "sleep" /\ evt.type = "AI_MESSAGE_START" /\ inp'.fault = "none"
      /\ ~inp'.announcement.ok) =>
       /\ pc' = "getNext"
       /\ \E i \in Appended :
            /\ log'[i].ch = "rounds"
            /\ log'[i].ev = "ai-message-start"
            /\ log'[i].round = evt.round
            /\ log'[i].topic = "Discuss your strategy!"]_vars

\* C15: no exception of a phase handler escapes the worker loop, so the worker
\* process never exits.
C15_WorkerNeverExits == pc # "exited"

\* C16: a failed broadcast is not propagated: the handler run that meets it
\* completes, the worker loop continues, and at SESSION_END the hot store is
\* purged all the same.
C16_FailedBroadcastContained ==
  [][(pc = "sleep" /\ inp'.fault = "broadcast") =>
       /\ pc' # "exited"
       /\ evt.type = "SESSION_END" => redis' = EmptyRedis]_vars

\* C18: a worker that finds neither an active nor an upcoming session
\* subscribes to new-session and blocks; the message naming an existing session
\* k that reaches it while it is blocked makes it load k with the rounds and
\* the players of k and begin to monitor k.
C18_WaitsThenLoadsAnnounced ==
  [][/\ (pc = "select" /\ pc' \notin {"select", "down"}
         /\ GetActiveSession = {} /\ FetchNextSession = {}) =>
          /\ pc' = "waiting"
          /\ subs' = subs + 1
          /\ cur' = NoCur
     /\ (pc = "waiting" /\ pc' # "down" /\ inbox # <<>>
         /\ inbox' = Tail(inbox) /\ Head(inbox) \in db) =>
          /\ pc' = "getNext"
          /\ cur'.id = Head(inbox)
          /\ cur'.rounds = Row(Head(inbox)).rounds
          /\ cur'.players = Row(Head(inbox)).players
          /\ cur'.start_time = Row(Head(inbox)).start_time
          /\ cur'.end_time = Row(Head(inbox)).end_time]_vars

\* The blocked worker has just loaded an announced session that has rounds and
\* players, and is about to compute its first event.
C18_Witness ==
  /\ pc = "getNext"
  /\ cur.first
  /\ subs > 0
  /\ cur.id \in db
  /\ cur.rounds # <<>>
  /\ cur.players # <<>>
  /\ \E i \in DOMAIN log : log[i].ev = "new-session" /\ log[i].sid = cur.id

\* C17: handlers of one session do not interleave: when the handler of an
\* event starts, no distributePlayersToLobbies call that an earlier handler of
\* the session made is still writing lobbies or has yet to publish
\* session-start.
C17_HandlersDoNotInterleave ==
  [][(pc = "sleep" /\ pc' \notin {"sleep", "down"}) =>
       \A t \in dist : t.sid # cur.id]_vars

\* C20: the worker never monitors a session whose monitorSession call has
\* already returned in the same process.
C20_NoSecondMonitoring == cur # NoCur => cur.id \notin completed

\* C19: createLobby is idempotent: called for a lobby whose key exists, with
\* any roster and at any later time, it leaves the whole hot store, the stored
\* lobby record and the session's lobby index included, as it was.
C19_CreateLobbyIdempotent ==
  \A lid \in 1..2, players \in LobbyRosters,
     pos \in 1..(Len(redis.lobbies[1]) + 1) :
    GetLobby(redis, 1, lid) # NoLobby =>
      /\ CreateLobby(World, 1, lid, players, pos).redis = redis
      /\ ~CreateLobby(World, 1, lid, players, pos).err

\* A lobby made by createLobby at an earlier instant has since been completed,
\* so a second write would change its status and its created_at.
C19_Witness ==
  \E lid \in 1..2 :
    /\ GetLobby(redis, 1, lid).status = COMPLETED
    /\ GetLobby(redis, 1, lid).created_at < now
    /\ lid \in Range(redis.lobbies[1])
    /\ pc = "down"

\* The events of a session that getNextEvent chooses among at instant n, as
\* << type, time, round >>: SESSION_START only before the start, SESSION_END,
\* and the eight phase events of every round.
TimelineCandidates(session, n) ==
  (IF n < session.start_time
     THEN {<< "SESSION_START", session.start_time, 0 >>} ELSE {})
  \cup {<< "SESSION_END", session.end_time, 0 >>}
  \cup UNION {{<< "AI_MESSAGE_START", r.ai_message_start, r.round_number >>,
               << "AI_MESSAGE_END", r.ai_message_end, r.round_number >>,
               << "ROUND_START", r.start_time, r.round_number >>,
               << "ROUND_END", r.end_time, r.round_number >>,
               << "ELIMINATION_START", r.elimination_start, r.round_number >>,
               << "ELIMINATION_END", r.elimination_end, r.round_number >>,
               << "VOTING_START", r.voting_start_time, r.round_number >>,
               << "VOTING_END", r.voting_end_time, r.round_number >>} :
              r \in Range(session.rounds)}

\* C21: getNextEvent called at instant n returns nothing when n is at or after
\* the session's end; otherwise it returns one of the session's events
\* (SESSION_START only if n is before the start, SESSION_END, the eight phase
\* events of every round) that is strictly later than n, and no such event is
\* earlier than the one returned.
C21_NextEventIsEarliestFuture ==
  pc = "sleep" =>
    LET session == Row(1)
        n == evt.asOf
        future == {c \in TimelineCandidates(session, n) : c[2] > n}
    IN IF n >= session.end_time
         THEN evt.type = "NONE"
         ELSE /\ << evt.type, evt.time, evt.round >> \in future
              /\ \A c \in future : evt.time <= c[2]

\* getNextEvent has answered before the end of a session of which one event is
\* due at the very instant of the call and two later events coincide at the
\* earliest future instant.
C21_Witness ==
  /\ pc = "sleep"
  /\ evt.asOf < Row(1).end_time
  /\ evt.type # "NONE"
  /\ \E c \in TimelineCandidates(Row(1), evt.asOf) : c[2] = evt.asOf
  /\ \E c \in TimelineCandidates(Row(1), evt.asOf) :
        c[2] = evt.time /\ c[1] # evt.type

\* C23: the step that handles ROUND_END performs no elimination: it leaves
\* every lobby record, every per-player status key and every elimination
\* record as it was and publishes no elimination-start; and an
\* elimination-start of round R is never published before R.elimination_start.
C23_RoundEndEliminatesNothing ==
  [][/\ (pc = "sleep" /\ evt.type = "ROUND_END" /\ pc' = "getNext") =>
          /\ redis'.lobby = redis.lobby
          /\ redis'.player = redis.player
          /\ redis'.elimination = redis.elimination
          /\ \A i \in Appended : log'[i].ev # "elimination-start"
     /\ \A i \in Appended :
          log'[i].ev = "elimination-start" =>
            \E r \in Range(Row(log'[i].sid).rounds) :
              /\ r.round_number = log'[i].round
              /\ log'[i].at >= r.elimination_start]_vars

\* The broadcasts of event ev for round rnd of session s; per lobby when
\* lid is a lobby, for the whole round when lid = 0.
RoundBroadcasts(ev, s, rnd, lid) ==
  {i \in DOMAIN log : /\ log[i].ev = ev /\ log[i].sid = s
                      /\ log[i].round = rnd /\ log[i].lobby = lid}

\* C24: for every round of the monitored session whose eight instants are
\* distinct and all later than the instant of picking, each phase handler runs
\* once: there is never more than one ai-message-start, ai-message-end,
\* round-start, round-end and voting-start for the round, nor more than one
\* elimination-start and elimination-end per lobby; and when VOTING_END is the
\* next event to dispatch and no handler has overrun, there is exactly one of
\* each of the five round broadcasts.
C24_EachPhaseOncePerRound ==
  \A k \in DOMAIN cur.rounds :
    LET r == cur.rounds[k]
        instants == {r.ai_message_start, r.ai_message_end, r.start_time,
                     r.end_time, r.elimination_start, r.elimination_end,
                     r.voting_start_time, r.voting_end_time}
        perRound == {"ai-message-start", "ai-message-end", "round-start",
                     "round-end", "voting-start"}
    IN (Cardinality(instants) = 8 /\ \A t \in instants : t > cur.pickedAt) =>
         /\ \A ev \in perRound :
              Cardinality(RoundBroadcasts(ev, cur.id, r.round_number, 0)) <= 1
         /\ \A ev \in {"elimination-start", "elimination-end"} :
              \A lid \in LobbyIds :
                Cardinality(RoundBroadcasts(ev, cur.id, r.round_number, lid)) <= 1
         /\ (/\ pc = "sleep" /\ evt.type = "VOTING_END"
             /\ evt.round = r.round_number /\ late = 0 /\ starts = 1) =>
              \A ev \in perRound :
                Cardinality(RoundBroadcasts(ev, cur.id, r.round_number, 0)) = 1

\* C25: once session-end has been published for a session, no phase broadcast
\* (ai-message-*, round-*, elimination-*, voting-*, game-end) of that session
\* is published any more.
C25_NothingAfterSessionEnd ==
  \A i, j \in DOMAIN log :
    (/\ i < j
     /\ log[i].ev = "session-end"
     /\ log[j].sid = log[i].sid)
      => log[j].ev \notin PhaseBroadcasts \cup {"game-end"}

\* C26: a "share" result for a lobby at VOTING_END changes that lobby only: the
\* step leaves the record (status and roster), the per-player status keys and
\* the elimination record of every lobby that got no "share" result, and the
\* session's lobby index, as they were.
C26_ShareTouchesOnlyItsLobby ==
  [][(/\ pc = "sleep" /\ evt.type = "VOTING_END" /\ pc' = "getNext"
      /\ \E i \in Appended :
           log'[i].ev = "voting-result" /\ log'[i].result = "share") =>
       /\ redis'.lobbies[cur.id] = redis.lobbies[cur.id]
       /\ \A lid \in LobbyIds :
            (\A i \in Appended :
               (log'[i].ev = "voting-result" /\ log'[i].lobby = lid)
                 => log'[i].result # "share") =>
              /\ redis'.lobby[cur.id, lid] = redis.lobby[cur.id, lid]
              /\ redis'.elimination[lid] = redis.elimination[lid]
              /\ \A p \in Wallets :
                   redis'.player[lid, p] = redis.player[lid, p]]_vars

C30_NoEventPassedOver ==
  [][/\ (pc = "getNext" /\ pc' = "sleep") =>
          \A c \in TimelineCandidates(cur, cur.pickedAt) :
            ~(/\ c[2] > cur.pickedAt
              /\ c[2] > evt.time
              /\ c[2] < evt'.time)
     /\ (/\ cur # NoCur /\ cur.pickedAt < cur.end_time
         /\ cur' = NoCur /\ pc' = "select") => cur.id \in ended']_vars

\* The place of an event type in the canonical phase order.
EventRank(type) ==
  CASE type = "SESSION_START" -> 0
    [] type = "AI_MESSAGE_START" -> 1
    [] type = "AI_MESSAGE_END" -> 2
    [] type = "ROUND_START" -> 3
    [] type = "ROUND_END" -> 4
    [] type = "ELIMINATION_START" -> 5
    [] type = "ELIMINATION_END" -> 6
    [] type = "VOTING_START" -> 7
    [] type = "VOTING_END" -> 8
    [] type = "SESSION_END" -> 9
    [] OTHER -> 10

\* C22: events of a session that share their instant are all dispatched, in the
\* canonical phase order: when the loop asks for its next event after it
\* dispatched an event, and the session has events of the same instant that
\* come later in the canonical order, the loop picks the first of these.
C22_CoincidingEventsAllDispatched ==
  [][(pc = "getNext" /\ evt.type # "NONE" /\ pc' # "getNext") =>
       LET tied == {c \in TimelineCandidates(cur, cur.pickedAt) :
                      /\ c[2] = evt.time
                      /\ EventRank(c[1]) > EventRank(evt.type)}
       IN tied # {} =>
            /\ pc' = "sleep"
            /\ << evt'.type, evt'.time, evt'.round >> \in tied
            /\ \A c \in tied : EventRank(evt'.type) <= EventRank(c[1])]_vars

\* C27: the vote lists are cleared before voting-start is published, so a vote
\* appended after the voting-start broadcast of a round stays in its list until
\* the list is counted: on every step taken after that broadcast and before
\* the lobby's voting-result, other than the dispatch of the round's
\* VOTING_END, the votes in the list are still in it afterwards.
C27_VotesAfterStartAreKept ==
  [][\A s \in SessionIds, lid \in LobbyIds, rnd \in RoundNums :
       (/\ \E i \in DOMAIN log : /\ log[i].ev = "voting-start"
                                /\ log[i].sid = s /\ log[i].round = rnd
        /\ ~\E i \in DOMAIN log' : /\ log'[i].ev = "voting-result"
                                  /\ log'[i].sid = s /\ log'[i].round = rnd
                                  /\ log'[i].lobby = lid
        /\ ~(pc = "sleep" /\ evt.type = "VOTING_END" /\ evt.round = rnd
             /\ pc' # "sleep"))
         => LET old == redis.voting[s, lid, rnd]
                new == redis'.voting[s, lid, rnd]
            IN /\ Len(new) >= Len(old)
               /\ SubSeq(new, Len(new) - Len(old) + 1, Len(new)) = old]_vars

\* C29: once SESSION_END has been dispatched for a session, the hot store holds
\* nothing of it, then and ever after: no lobby record, no lobby index, no
\* player set, no per-player status key, no vote list, no elimination record.
C29_PurgedForGood ==
  \A s \in ended :
    /\ redis.lobbies[s] = <<>>
    /\ redis.players[s] = {}
    /\ \A lid \in LobbyIds :
         /\ redis.lobby[s, lid] = NoLobby
         /\ \A rnd \in RoundNums : redis.voting[s, lid, rnd] = <<>>
    /\ (\A o \in db \ {s} : o \in ended \/ now < Row(o).start_time) =>
         /\ \A k \in DOMAIN redis.player : redis.player[k] = "none"
         /\ \A lid \in LobbyIds : redis.elimination[lid] = NoElimination

\* C31: a pass of the selector monitors an active session whenever the
\* sessions table holds one, whatever is upcoming; it takes an upcoming session
\* (one of earliest start) only when no session is active, and waits only when
\* there is neither.
C31_ActivePreferred ==
  [][(pc = "select" /\ pc' \in {"getNext", "waiting"}) =>
       LET active == {s \in db : Row(s).start_time <= now /\ now <= Row(s).end_time}
           upcoming == {s \in db : Row(s).start_time > now}
       IN /\ active # {} => pc' = "getNext" /\ cur'.id \in active
          /\ (active = {} /\ upcoming # {}) =>
               /\ pc' = "getNext"
               /\ cur'.id \in upcoming
               /\ \A u \in upcoming : Row(cur'.id).start_time <= Row(u).start_time
          /\ (active = {} /\ upcoming = {}) => pc' = "waiting"]_vars

\* The selector has just picked an active session while another stored session
\* was upcoming.
C31_Witness ==
  /\ pc = "getNext"
  /\ cur # NoCur
  /\ cur.pickedAt = now
  /\ evt = NoEvent
  /\ db = cfg.db0
  /\ Row(cur.id).start_time <= now /\ now <= Row(cur.id).end_time
  /\ \E u \in db : Row(u).start_time > now

Announced(sid) ==
  {i \in DOMAIN log : log[i].ev = "new-session" /\ log[i].sid = sid}

\* C39: a new-session message that names an id without a session row is
\* skipped: handling it publishes nothing and does not end the worker, a worker
\* that was waiting goes back to its selector with no session, and a worker
\* that waits when a message naming a stored session arrives begins to monitor
\* that session, whatever messages came before.
C39_UnknownSessionSkipped ==
  [][(inbox # <<>> /\ inbox' = Tail(inbox)) =>
       IF Head(inbox) \notin db
         THEN /\ log' = log
              /\ pc' \notin {"exited", "down"}
              /\ cur' = IF pc = "waiting" THEN NoCur ELSE cur
              /\ pc = "waiting" => pc' = "select"
              /\ redis' = redis
         ELSE pc = "waiting" =>
                /\ pc' = "getNext"
                /\ cur'.id = Head(inbox)
                /\ cur'.rounds = Row(Head(inbox)).rounds]_vars

\* The worker monitors its first session after a wait that a message naming
\* an unknown id had ended with no session.
C39_Witness ==
  /\ cur # NoCur
  /\ pc = "getNext"
  /\ evt = NoEvent
  /\ cfg.db0 = {}
  /\ starts = 1
  /\ completed = {}
  /\ subs >= 2
  /\ Announced(cur.id) # {}

\* C40: handling one new-session message publishes at most one
\* sessions/new-session broadcast, however many idle waits the worker has gone
\* through before.
C40_OneBroadcastPerMessage ==
  [][(inbox # <<>> /\ inbox' = Tail(inbox)) => Len(log') <= Len(log) + 1]_vars

\* The sizes claimed for a distribution of total players with a maximum of
\* maxp: N = max(1, total div maxp) lobbies with ids 1..N, the first N - 1 of
\* total div N players and the last of that plus the remainder.
ClaimedLobbies(lobbies, total, maxp) ==
  LET n == IF total \div maxp > 1 THEN total \div maxp ELSE 1
      base == total \div n
  IN /\ Len(lobbies) = n
     /\ \A i \in 1..n :
          /\ lobbies[i].lobbyId = i
          /\ Len(lobbies[i].players) =
               IF i < n THEN base ELSE base + (total - n * base)

\* C32 as stated: every finished distributePlayersToLobbies call, for any
\* number of players, returned lobbies 1..N of the claimed sizes, with
\* N = max(1, total div max).
C32_ClaimedSizesForAnyTotal ==
  \A r \in returned :
    ClaimedLobbies(r.lobbies, Len(Row(r.sid).players), r.maxp)

\* C32, amended: a finished distributePlayersToLobbies call for at least one
\* player returned lobbies 1..N of the claimed sizes, with
\* N = max(1, total div max), and the stored lobby records have those sizes;
\* a call for no player returned no lobby.
C32_ClaimedSizes ==
  \A r \in returned :
    LET total == Len(Row(r.sid).players)
    IN IF total = 0 THEN r.lobbies = <<>>
       ELSE /\ ClaimedLobbies(r.lobbies, total, r.maxp)
            /\ \A i \in DOMAIN r.lobbies :
                 Len(GetLobby(redis, r.sid, i).players) = Len(r.lobbies[i].players)

\* A distribution has returned several lobbies for a number of players that
\* the maximum does not divide, the last lobby holding the remainder.
C32_Witness ==
  \E r \in returned :
    /\ Len(Row(r.sid).players) % r.maxp # 0
    /\ Len(r.lobbies) >= 2
    /\ Len(r.lobbies[Len(r.lobbies)].players) > r.maxp

\* C33: at the moment a distributePlayersToLobbies call returns, the session's
\* lobby index holds exactly the keys of the lobbies returned, each of these
\* keys holds a lobby record with status ACTIVE, and the per-player key of
\* every player of every returned lobby holds status ACTIVE.
C33_IndexAndKeysAfterDistribution ==
  [][\A r \in returned' \ returned :
       /\ Range(redis'.lobbies[r.sid]) =
            {r.lobbies[i].lobbyId : i \in DOMAIN r.lobbies}
       /\ Len(redis'.lobbies[r.sid]) = Len(r.lobbies)
       /\ \A i \in DOMAIN r.lobbies :
            LET lid == r.lobbies[i].lobbyId
            IN /\ GetLobby(redis', r.sid, lid) # NoLobby
               /\ GetLobby(redis', r.sid, lid).status = ACTIVE
               /\ \A p \in Range(r.lobbies[i].players) :
                    redis'.player[lid, p] = ACTIVE]_vars

\* The eliminatedPlayers payloads of the elimination-start broadcasts for lobby
\* lid of session s among the first n broadcasts, concatenated in order.
RECURSIVE EliminationPayloads(_, _, _)
EliminationPayloads(s, lid, n) ==
  IF n = 0 THEN <<>>
  ELSE EliminationPayloads(s, lid, n - 1) \o
         (IF /\ log[n].ev = "elimination-start"
             /\ log[n].sid = s /\ log[n].lobby = lid
            THEN log[n].list ELSE <<>>)

\* C34: the eliminatedPlayers list stored under a lobby's elimination key is
\* the concatenation, in publication order, of the eliminatedPlayers payloads
\* of all elimination-start broadcasts published for that lobby in the session.
C34_EliminationRecordAccumulates ==
  \A s \in SessionIds, lid \in LobbyIds :
    (redis.elimination[lid].exists /\ GetLobby(redis, s, lid) # NoLobby) =>
      redis.elimination[lid].eliminatedPlayers = EliminationPayloads(s, lid, Len(log))

\* C36: the remainingParticipants payload of elimination-end for a lobby is
\* exactly the set of the lobby's wallets whose status is not ELIMINATED when
\* the broadcast is published.
C36_RemainingParticipantsAreSurvivors ==
  [][\A i \in Appended :
       log'[i].ev = "elimination-end" =>
         LET lobby == GetLobby(redis', log'[i].sid, log'[i].lobby)
         IN /\ lobby # NoLobby
            /\ Range(log'[i].list) =
                 {p.wallet_address : p \in {q \in Range(lobby.players) :
                                              q.status # ELIMINATED}}]_vars

\* C35: when elimination-start is published for a lobby, every wallet of its
\* payload that belongs to the lobby already has status ELIMINATED in the
\* per-player key and in the stored lobby record, and from then on the
\* per-player key and the record agree on every member of every lobby.
KeysAgreeWithRecords(r) ==
  \A s \in SessionIds, lid \in LobbyIds :
    GetLobby(r, s, lid) # NoLobby =>
      \A p \in Range(GetLobby(r, s, lid).players) :
        (r.player[lid, p.wallet_address] = ELIMINATED) <=> (p.status = ELIMINATED)

C35_EliminatedBeforeBroadcast ==
  [][/\ \A i \in Appended :
          log'[i].ev = "elimination-start" =>
            LET lobby == GetLobby(redis', log'[i].sid, log'[i].lobby)
            IN /\ lobby # NoLobby
               /\ \A p \in Range(lobby.players) :
                    p.wallet_address \in Range(log'[i].list) =>
                      /\ p.status = ELIMINATED
                      /\ redis'.player[lobby.id, p.wallet_address] = ELIMINATED
     /\ (\E i \in DOMAIN log : log[i].ev = "elimination-start") =>
          KeysAgreeWithRecords(redis')]_vars

\* C37: within a session the lobby status COMPLETED is absorbing: a stored
\* lobby record with status COMPLETED keeps that status through every step
\* (the write-back of handleEliminationStart included) until the hot store is
\* purged and the record is gone.
C37_CompletedIsAbsorbing ==
  [][\A s \in SessionIds, lid \in LobbyIds :
       (GetLobby(redis, s, lid) # NoLobby /\ GetLobby(redis, s, lid).status = COMPLETED)
         => \/ GetLobby(redis', s, lid) = NoLobby
            \/ GetLobby(redis', s, lid).status = COMPLETED]_vars

\* Round 2's elimination has run in a session that holds a lobby completed in
\* round 1 next to a lobby still active.
C37_Witness ==
  /\ \E i \in DOMAIN log : log[i].ev = "elimination-start" /\ log[i].round = 2
  /\ \E lid \in LobbyIds :
       GetLobby(redis, 1, lid) # NoLobby /\ GetLobby(redis, 1, lid).status = COMPLETED
  /\ \E lid \in LobbyIds :
       GetLobby(redis, 1, lid) # NoLobby /\ GetLobby(redis, 1, lid).status = ACTIVE

\* C38: updateLobbyStatus and updateLobby called for a lobby key that does not
\* exist fail with an error and write nothing: the hot store is as it was and
\* holds no record for the key.
C38_UpdateOfMissingLobbyThrows ==
  \A lid \in 1..2 :
    GetLobby(redis, 1, lid) = NoLobby =>
      /\ \A status \in {ACTIVE, COMPLETED} :
           /\ UpdateLobbyStatus(World, 1, lid, status).err
           /\ UpdateLobbyStatus(World, 1, lid, status).redis = redis
      /\ \A lobby \in LobbyObjects(lid) :
           /\ UpdateLobby(World, 1, lid, lobby).err
           /\ UpdateLobby(World, 1, lid, lobby).redis = redis

\* A call for the missing key of one lobby has just thrown, in a store that
\* holds the other lobby.
C38_Witness ==
  /\ inp.fault = "missing"
  /\ \E lid \in 1..2 : GetLobby(redis, 1, lid) = NoLobby
  /\ \E lid \in 1..2 : GetLobby(redis, 1, lid) # NoLobby
====
